---- MODULE Spec2Model ----
(***************************************************************************)
(* A model of downsizer.py: load and validate settings.cfg, walk the       *)
(* Django project tree for template directories, run PurgeCSS once per     *)
(* configured stylesheet, and gzip every stylesheet whose purge printed    *)
(* nothing.                                                                *)
(*                                                                         *)
(* Python strings are sequences of one-character strings, so that split,   *)
(* strip, substring containment and basename are computed, not assumed.    *)
(* Bytes are naturals below 256.                                           *)
(***************************************************************************)
EXTENDS Integers, Sequences, FiniteSets, TLC

VARIABLES
    cfgFile,             \* settings.cfg as found on disk
    platformName,        \* platform.system()
    tree,                \* the directory tree under django_directory, NoDir when absent
    cssOnDisk,           \* the paths for which os.path.isfile is true
    purgedBytes,         \* the stylesheet PurgeCSS writes when it writes one
    fs,                  \* files of the output directory: path -> bytes
    pc,                  \* position of main
    config,              \* what load_and_check_config returned
    exc,                 \* the exception that ended the run, or NoExc
    css_files, django_apps, output_dir, django_project_directory,
    walkStack,           \* directories os.walk has still to yield
    html_glob_patterns,
    idx,                 \* 1-based position of the for loop over css_files
    purge_result,        \* the CompletedProcess of the current iteration
    purged_filename,
    console,             \* what the program printed, in order
    calls                \* history: the library and subprocess calls made, in order

vars == <<cfgFile, platformName, tree, cssOnDisk, purgedBytes, fs, pc, config, exc, css_files,
          django_apps, output_dir, django_project_directory, walkStack,
          html_glob_patterns, idx, purge_result, purged_filename, console, calls>>

\* ------------------------------------------------------------ strings

SP == " "
COMMA == ","
SLASH == "/"

Text_css == <<".", "c", "s", "s">>
Text_html == <<".", "h", "t", "m", "l">>
Text_around == <<"a", "r", "o", "u", "n", "d">>
Text_glob == <<"/", "*", ".", "h", "t", "m", "l">>
Text_purged == <<"-", "p", "u", "r", "g", "e", "d", ".", "c", "s", "s">>
Text_gz == <<".", "g", "z">>

\* s[i:] of Python, i counted from 0
Drop(s, i) == SubSeq(s, i + 1, Len(s))

\* s[:i] of Python
Take(s, i) == SubSeq(s, 1, i)

\* str.endswith
EndsWith(s, suf) == Len(suf) <= Len(s) /\ Drop(s, Len(s) - Len(suf)) = suf

\* `sub in s` of Python: plain substring containment
Contains(s, sub) == \E i \in 0..(Len(s) - Len(sub)) : SubSeq(s, i + 1, i + Len(sub)) = sub

\* str.find: the 0-based offset of the first occurrence, -1 when there is none
Find(s, sub) ==
    IF Contains(s, sub)
    THEN CHOOSE i \in 0..(Len(s) - Len(sub)) :
            /\ SubSeq(s, i + 1, i + Len(sub)) = sub
            /\ \A j \in 0..(i - 1) : SubSeq(s, j + 1, j + Len(sub)) # sub
    ELSE -1

\* str.split(sep): every piece between occurrences of sep, empty pieces kept
RECURSIVE Split(_, _)
Split(s, sep) ==
    LET at == Find(s, sep)
    IN  IF at < 0 THEN <<s>>
        ELSE <<Take(s, at)>> \o Split(Drop(s, at + Len(sep)), sep)

\* str.lstrip(ch)
RECURSIVE LStrip(_, _)
LStrip(s, ch) == IF s # <<>> /\ Head(s) = ch THEN LStrip(Tail(s), ch) ELSE s

\* str.rstrip(ch)
RECURSIVE RStrip(_, _)
RStrip(s, ch) ==
    IF s # <<>> /\ s[Len(s)] = ch THEN RStrip(Take(s, Len(s) - 1), ch) ELSE s

\* a faulty Strip: lstrip in its place
LStripOnly(s, ch) == LStrip(s, ch)

\* str.strip(ch): the character is removed from both ends
Strip(s, ch) == RStrip(LStrip(s, ch), ch)

\* sep.join(parts)
RECURSIVE Join(_, _)
Join(parts, sep) ==
    IF parts = <<>> THEN <<>>
    ELSE IF Len(parts) = 1 THEN parts[1]
    ELSE parts[1] \o sep \o Join(Tail(parts), sep)

\* os.path.basename: what follows the last "/"
RECURSIVE Basename(_)
Basename(path) ==
    LET at == Find(path, <<SLASH>>)
    IN  IF at < 0 THEN path ELSE Basename(Drop(path, at + 1))

\* [f(x) for x in s]
StripEach(parts) == [i \in 1..Len(parts) |-> Strip(parts[i], SP)]

\* main's two list comprehensions: value.split(',') with strip(' ') on each piece
SplitList(value) == StripEach(Split(value, <<COMMA>>))

\* ------------------------------------------------------------ settings.cfg

SECTION == "SETTINGS"
K_css == "input_css_files"
K_out == "output_directory"
K_dir == "django_directory"
K_apps == "django_apps"

NoExc == [type |-> "None", msg |-> <<>>]

Raise(type, msg) == [raised |-> TRUE, exc |-> [type |-> type, msg |-> msg], value |-> <<>>]

Return(value) == [raised |-> FALSE, exc |-> NoExc, value |-> value]

DEFAULTSECT == "DEFAULT"

\* what [DEFAULT] supplies to every section: the key is there
InDefaults(config_object, key) ==
    /\ DEFAULTSECT \in DOMAIN config_object
    /\ key \in DOMAIN config_object[DEFAULTSECT]

\* ConfigParser.has_option(section, key): the section must exist; the key may
\* be its own or come from [DEFAULT]
has_option(config_object, section, key) ==
    /\ section \in DOMAIN config_object
    /\ (key \in DOMAIN config_object[section] \/ InDefaults(config_object, key))

\* ConfigParser.get(section, key), asked only where has_option holds: the
\* section's own value wins over the one of [DEFAULT]
get(config_object, section, key) ==
    IF key \in DOMAIN config_object[section]
    THEN config_object[section][key]
    ELSE config_object[DEFAULTSECT][key]

options_required_keys == <<K_css, K_out, K_dir, K_apps>>

\* a faulty KeyMissingOrEmpty: the emptiness test forgotten
KeyMissingOnly(config_object, key) == ~has_option(config_object, SECTION, key)

\* the condition of check_config's loop: the key is missing, or its value is ""
KeyMissingOrEmpty(config_object, key) ==
    \/ ~has_option(config_object, SECTION, key)
    \/ get(config_object, SECTION, key) = <<>>

\* check_config: the first required key that is missing or empty raises
\* InvalidConfigFile, which the function's own except clause wraps in another
\* InvalidConfigFile; otherwise True
check_config(config_object) ==
    LET bad == {i \in 1..Len(options_required_keys) :
                    KeyMissingOrEmpty(config_object, options_required_keys[i])}
    IN  IF bad # {}
        THEN LET first == CHOOSE i \in bad : \A j \in bad : i <= j
             IN  Raise("InvalidConfigFile",
                       <<"Error while checking config: Missing or empty key ",
                         options_required_keys[first], " in [OPTIONS]">>)
        ELSE Return(TRUE)

\* load_and_check_config: open and parse the file, then validate it
load_and_check_config(file) ==
    IF file.kind = "missing"
    THEN Raise("InvalidConfigFile", <<"Config file ", "settings.cfg", " not found.">>)
    ELSE IF file.kind # "ok"
    THEN Raise("InvalidConfigFile",
               <<"An error occurred while reading the config file: ", file.kind>>)
    ELSE LET checked == check_config(file.sections)
         IN  IF checked.raised THEN checked
             ELSE IF checked.value
             THEN Return([isNone |-> FALSE, sections |-> file.sections])
             ELSE Raise("InvalidConfigFile", <<"Invalid configuration in ", "settings.cfg">>)

\* `not config` of main: None is falsy, a ConfigParser never is
Falsy(value) == value.isNone

\* ------------------------------------------------------------ os.walk

\* A tree is the root directory (index 0) and the directories 1..Len(parent) under
\* it; parent[i] < i, and a directory's subdirectories are listed in index order.
NoDir == [exists |-> FALSE, rootFiles |-> <<>>, parent |-> <<>>, name |-> <<>>,
          files |-> <<>>]

FilesOf(t, i) == IF i = 0 THEN t.rootFiles ELSE t.files[i]

SubdirsOf(t, i) ==
    SelectSeq([j \in 1..Len(t.parent) |-> j], LAMBDA j : t.parent[j] = i)

\* os.path.join(top, name)
PathJoin(top, name) ==
    IF top # <<>> /\ top[Len(top)] = SLASH THEN top \o name ELSE top \o <<SLASH>> \o name

\* os.walk(top): nothing is yielded for a top that is no directory
WalkStart(t, top) == IF t.exists THEN <<[root |-> top, dir |-> 0]>> ELSE <<>>

\* the directories below the one just yielded, to be walked before its siblings
WalkPush(t, entry, rest) ==
    LET subs == SubdirsOf(t, entry.dir)
    IN  [k \in 1..Len(subs) |->
            [root |-> PathJoin(entry.root, t.name[subs[k]]), dir |-> subs[k]]] \o rest

\* any(app in root for app in django_apps)
AnyAppIn(apps, root) == \E k \in 1..Len(apps) : Contains(root, apps[k])

\* any(file.endswith('.html') for file in files)
AnyHtml(files) == \E k \in 1..Len(files) : EndsWith(files[k], Text_html)

\* a faulty Qualifies: the "around" test forgotten
QualifiesIgnoringAround(apps, root, files) == AnyAppIn(apps, root) /\ AnyHtml(files)

\* the two conditions of main's loop body
Qualifies(apps, root, files) ==
    /\ AnyAppIn(apps, root)
    /\ ~Contains(root, Text_around)
    /\ AnyHtml(files)

\* f"{root}/*.html"
GlobPattern(root) == root \o Text_glob

\* ------------------------------------------------------------ gzip

\* The gzip member written by gzip.open(path, 'wb') is modelled as bytes: the
\* fixed 10-byte header (RFC 1952; the optional name and the time stamp are left
\* zero), the deflate payload at the LZ77 level of RFC 1951 (a literal as
\* <<0, byte>>, a back-reference as <<1, length, distance>>; Huffman bit packing
\* is not modelled), then CRC-32 and ISIZE, four bytes each, low byte first.

GZ_MAGIC1 == 31
GZ_MAGIC2 == 139
GZ_DEFLATE == 8
MIN_MATCH == 3
GzipHeader == <<GZ_MAGIC1, GZ_MAGIC2, GZ_DEFLATE, 0, 0, 0, 0, 0, 2, 255>>

Min(a, b) == IF a < b THEN a ELSE b

\* the low `width` bits of n, low bit first
BitsOf(n, width) == [i \in 1..width |-> (n \div (2 ^ (i - 1))) % 2]

\* the byte whose 8 bits, low bit first, are given
ByteOf(bits) ==
    bits[1] + 2 * bits[2] + 4 * bits[3] + 8 * bits[4]
        + 16 * bits[5] + 32 * bits[6] + 64 * bits[7] + 128 * bits[8]

XorBits(a, b) == [i \in 1..Len(a) |-> (a[i] + b[i]) % 2]

\* 0xEDB88320, low bit first
CrcPoly == <<0, 0, 0, 0, 0, 1, 0, 0, 1, 1, 0, 0, 0, 0, 0, 1,
             0, 0, 0, 1, 1, 1, 0, 1, 1, 0, 1, 1, 0, 1, 1, 1>>

Ones32 == [i \in 1..32 |-> 1]

\* one bit of the CRC register: shift right, and xor the polynomial in when the
\* bit shifted out is set
CrcShift(reg) ==
    LET shifted == Tail(reg) \o <<0>>
    IN  IF reg[1] = 1 THEN XorBits(shifted, CrcPoly) ELSE shifted

\* one byte through the register: xor it into the low 8 bits, then 8 shifts
CrcByte(reg, byte) ==
    LET r0 == XorBits(reg, BitsOf(byte, 8) \o [i \in 1..24 |-> 0])
    IN  CrcShift(CrcShift(CrcShift(CrcShift(CrcShift(CrcShift(CrcShift(CrcShift(r0))))))))

\* the register after every byte of data; the register is 32 bits wide throughout
RECURSIVE CrcUpdate(_, _)
CrcUpdate(reg, data) ==
    IF data = <<>> THEN reg
    ELSE LET next == CrcByte(reg, Head(data))
         IN  IF Len(next) = 32 THEN CrcUpdate(next, Tail(data)) ELSE <<>>

\* zlib.crc32(data), as 4 bytes, low byte first
Crc32(data) ==
    LET reg == XorBits(CrcUpdate(Ones32, data), Ones32)
    IN  [k \in 1..4 |-> ByteOf(SubSeq(reg, 8 * k - 7, 8 * k))]

\* a length below 2^16 as 4 bytes, low byte first
Le32(n) == <<n % 256, (n \div 256) % 256, 0, 0>>

\* how far data[pos..] repeats what lies dist bytes back (the copy may overlap)
RECURSIVE MatchLen(_, _, _, _)
MatchLen(data, pos, dist, n) ==
    IF pos + n <= Len(data) /\ n < 255 /\ data[pos + n] = data[pos + n - dist]
    THEN MatchLen(data, pos, dist, n + 1)
    ELSE n

\* deflate: at each position the longest earlier match of MIN_MATCH bytes or
\* more (the nearest one among equals), else a literal
RECURSIVE Deflate(_, _)
Deflate(data, pos) ==
    IF pos > Len(data) THEN <<>>
    ELSE LET dists == {d \in 1..Min(pos - 1, 255) : MatchLen(data, pos, d, 0) >= MIN_MATCH}
         IN  IF dists = {}
             THEN <<0, data[pos]>> \o Deflate(data, pos + 1)
             ELSE LET best == CHOOSE d \in dists : \A e \in dists :
                                \/ MatchLen(data, pos, d, 0) > MatchLen(data, pos, e, 0)
                                \/ /\ MatchLen(data, pos, d, 0) = MatchLen(data, pos, e, 0)
                                   /\ d <= e
                      n == MatchLen(data, pos, best, 0)
                  IN  <<1, n, best>> \o Deflate(data, pos + n)

\* the copy of n bytes from dist bytes back, byte by byte
RECURSIVE CopyBack(_, _, _)
CopyBack(out, n, dist) ==
    IF n = 0 THEN out ELSE CopyBack(Append(out, out[Len(out) + 1 - dist]), n - 1, dist)

\* no byte is negative: the mark of a member gzip refuses (BadGzipFile)
BadStream == <<-1>>

\* inflate: the bytes the payload stands for, BadStream when it is malformed
RECURSIVE Inflate(_, _)
Inflate(payload, out) ==
    IF payload = <<>> THEN out
    ELSE IF payload[1] = 0 /\ Len(payload) >= 2
    THEN Inflate(Drop(payload, 2), Append(out, payload[2]))
    ELSE IF payload[1] = 1 /\ Len(payload) >= 3 /\ payload[3] >= 1 /\ payload[3] <= Len(out)
    THEN Inflate(Drop(payload, 3), CopyBack(out, payload[2], payload[3]))
    ELSE BadStream

\* GzipFile.close() after `written` went through GzipFile.write: the whole member
GzipMember(written) ==
    GzipHeader \o Deflate(written, 1) \o Crc32(written) \o Le32(Len(written))

\* gzip.decompress: the payload inflated, once header, CRC-32 and ISIZE agree
Gunzip(member) ==
    IF Len(member) < Len(GzipHeader) + 8 \/ Take(member, Len(GzipHeader)) # GzipHeader
    THEN BadStream
    ELSE LET inflated == Inflate(SubSeq(member, Len(GzipHeader) + 1, Len(member) - 8), <<>>)
         IN  IF /\ inflated # BadStream
                /\ SubSeq(member, Len(member) - 7, Len(member) - 4) = Crc32(inflated)
                /\ SubSeq(member, Len(member) - 3, Len(member)) = Le32(Len(inflated))
             THEN inflated ELSE BadStream

\* ------------------------------------------------------------ purge_css_file

\* css_filename.split('.css')[0]: what precedes the first ".css" of the name
CssFilenamePrefix(css_filename) == Split(css_filename, Text_css)[1]

\* f"{css_filename_prefix}-purged.css" for os.path.basename(css_file)
OutputFilename(css_file) == CssFilenamePrefix(Basename(css_file)) \o Text_purged

\* f"{output_dir}/{name}"
OutputPath(dir, name) == dir \o <<SLASH>> \o name

\* purgecss_command, by its three arguments
PurgeCssCommand(glob_patterns, css_file, dir) ==
    [css |-> css_file,
     content |-> Join(glob_patterns, <<SP>>),
     output |-> OutputPath(dir, OutputFilename(css_file))]

\* npx_command: the shell line handed to subprocess.run
NpxCommand(system, command) ==
    [shell |-> IF system = "Windows" THEN "npx" ELSE "bash -c 'source $HOME/.nvm/nvm.sh && npx'",
     purgecss |-> command]

\* the line purge_css_file prints before it runs the command
PurgeNotice(isfile, css_file, command) ==
    IF ~isfile
    THEN [text |-> "Error: CSS File does not exist. Please check the file paths.",
          arg |-> css_file]
    ELSE [text |-> "Running PurgeCSS command: ", arg |-> command]

\* ------------------------------------------------------------ compress_purged_file

\* stands for shutil.COPY_BUFSIZE (64 KiB), scaled to the model's file sizes
CopyBufSize == 2

\* a faulty copyfileobj: one read, no loop
copyfileobjOnce(unread, written) == written \o Take(unread, Min(CopyBufSize, Len(unread)))

\* shutil.copyfileobj: read a buffer, stop at the empty one, else write it
RECURSIVE copyfileobj(_, _)
copyfileobj(unread, written) ==
    LET buf == Take(unread, Min(CopyBufSize, Len(unread)))
    IN  IF buf = <<>> THEN written
        ELSE copyfileobj(Drop(unread, Len(buf)), written \o buf)

\* a faulty GzipWrite: the ".gz" suffix forgotten
GzipWriteInPlace(files, filepath) ==
    (filepath :> GzipMember(copyfileobj(files[filepath], <<>>))) @@ files

\* the files after gzip.open(f'{filepath}.gz', 'wb') received the copy and closed
GzipWrite(files, filepath) ==
    ((filepath \o Text_gz) :> GzipMember(copyfileobj(files[filepath], <<>>))) @@ files

\* compress_purged_file: FileNotFoundError from open(filepath, 'rb') when the
\* purged file is not there; else the .gz is written and filepath returned
compress_purged_file(files, dir, purged_file) ==
    LET filepath == OutputPath(dir, purged_file)
    IN  IF filepath \notin DOMAIN files
        THEN [raised |-> TRUE, exc |-> [type |-> "FileNotFoundError", msg |-> <<filepath>>],
              value |-> <<>>, files |-> files]
        ELSE [raised |-> FALSE, exc |-> NoExc, value |-> filepath,
              files |-> GzipWrite(files, filepath)]

\* ------------------------------------------------------------ main

Line(text, arg) == [text |-> text, arg |-> arg]

Call(op, i, arg) == [op |-> op, i |-> i, arg |-> arg]

NoResult == [stdout |-> <<>>, stderr |-> <<>>, returncode |-> 0]

\* a faulty PurgeSucceeded: stdout not looked at
StderrEmpty(result) == result.stderr = <<>>

\* a faulty PurgeSucceeded: the exit status in place of the streams
ExitedZero(result) == result.returncode = 0

\* main's test of the purge: both captured streams are the empty string
PurgeSucceeded(result) == result.stdout = <<>> /\ result.stderr = <<>>

\* lines 18-31: load the configuration and split its two lists
LoadConfig ==
    /\ pc = "start"
    /\ LET loaded == load_and_check_config(cfgFile)
       IN  IF loaded.raised
           THEN /\ pc' = "raised"
                /\ exc' = loaded.exc
                /\ calls' = Append(calls, Call("load_and_check_config", 0, <<>>))
                /\ UNCHANGED <<config, console, css_files, django_apps, output_dir,
                               django_project_directory, walkStack>>
           ELSE IF Falsy(loaded.value)
           THEN /\ pc' = "done"
                /\ console' = Append(console, Line("Config file set incorrectly.", <<>>))
                /\ calls' = Append(calls, Call("load_and_check_config", 0, <<>>))
                /\ UNCHANGED <<config, exc, css_files, django_apps, output_dir,
                               django_project_directory, walkStack>>
           ELSE LET top == get(loaded.value.sections, SECTION, K_dir)
                IN  /\ pc' = "walk"
                    /\ config' = loaded.value
                    /\ django_project_directory' = top
                    /\ css_files' = SplitList(get(loaded.value.sections, SECTION, K_css))
                    /\ output_dir' = get(loaded.value.sections, SECTION, K_out)
                    /\ django_apps' = SplitList(get(loaded.value.sections, SECTION, K_apps))
                    /\ walkStack' = WalkStart(tree, top)
                    /\ calls' = Append(Append(calls, Call("load_and_check_config", 0, <<>>)),
                                       Call("os.walk", 0, top))
                    /\ UNCHANGED <<exc, console>>
    /\ UNCHANGED <<cfgFile, platformName, tree, cssOnDisk, purgedBytes, fs, html_glob_patterns, idx,
                   purge_result, purged_filename>>

\* lines 37-42: one iteration of the loop over os.walk
WalkStep ==
    /\ pc = "walk"
    /\ walkStack # <<>>
    /\ LET entry == Head(walkStack)
       IN  /\ html_glob_patterns' =
                IF Qualifies(django_apps, entry.root, FilesOf(tree, entry.dir))
                THEN Append(html_glob_patterns, GlobPattern(entry.root))
                ELSE html_glob_patterns
           /\ walkStack' = WalkPush(tree, entry, Tail(walkStack))
           /\ calls' = Append(calls, Call("visit", entry.dir, entry.root))
    /\ UNCHANGED <<cfgFile, platformName, tree, cssOnDisk, purgedBytes, fs, pc, config, exc, css_files,
                   django_apps, output_dir, django_project_directory, idx, purge_result,
                   purged_filename, console>>

\* a faulty WalkDone: the loop over os.walk left before it is exhausted
WalkDoneEarly ==
    /\ pc = "walk"
    /\ pc' = "purge"
    /\ idx' = 1
    /\ UNCHANGED <<cfgFile, platformName, tree, cssOnDisk, purgedBytes, fs, config, exc,
                   css_files, django_apps, output_dir, django_project_directory, walkStack,
                   html_glob_patterns, purge_result, purged_filename, console, calls>>

\* os.walk is exhausted: on to the loop over css_files (line 44)
WalkDone ==
    /\ pc = "walk"
    /\ walkStack = <<>>
    /\ pc' = "purge"
    /\ idx' = 1
    /\ UNCHANGED <<cfgFile, platformName, tree, cssOnDisk, purgedBytes, fs, config, exc, css_files,
                   django_apps, output_dir, django_project_directory, walkStack,
                   html_glob_patterns, purge_result, purged_filename, console, calls>>

\* what PurgeCSS may do: print or not on either stream, exit with any status, and
\* write the purged stylesheet to its --output path or not
ToolStreams == {<<>>, <<"!">>}
ToolOutcomes ==
    [stdout : ToolStreams, stderr : ToolStreams, returncode : {0, 1}, wrote : BOOLEAN]

\* line 45: purge_css_file for css_files[idx], the external tool included
PurgeCssFile ==
    /\ pc = "purge"
    /\ idx <= Len(css_files)
    /\ \E tool \in ToolOutcomes :
        LET css_file == css_files[idx]
            command == PurgeCssCommand(html_glob_patterns, css_file, output_dir)
        IN  /\ console' = Append(console, PurgeNotice(css_file \in cssOnDisk, css_file, command))
            /\ calls' = calls \o
                    <<Call("subprocess.run", idx, NpxCommand(platformName, command)),
                      Call("returned", idx,
                           [stdout |-> tool.stdout, stderr |-> tool.stderr,
                            returncode |-> tool.returncode,
                            name |-> OutputFilename(css_file)])>>
            /\ fs' = IF tool.wrote THEN (command.output :> purgedBytes) @@ fs ELSE fs
            /\ purge_result' = [stdout |-> tool.stdout, stderr |-> tool.stderr,
                                returncode |-> tool.returncode]
            /\ purged_filename' = OutputFilename(css_file)
    /\ pc' = "check"
    /\ UNCHANGED <<cfgFile, platformName, tree, cssOnDisk, purgedBytes, config, exc, css_files,
                   django_apps, output_dir, django_project_directory, walkStack,
                   html_glob_patterns, idx>>

\* lines 47-51: the purge printed nothing: report it, compress, report that
Succeeded ==
    /\ pc = "check"
    /\ PurgeSucceeded(purge_result)
    /\ LET said == console \o <<Line("PurgeCSS command completed successfully.", <<>>),
                                Line("Purged CSS file saved to: ", purged_filename)>>
           done == compress_purged_file(fs, output_dir, purged_filename)
       IN  /\ calls' = Append(calls, Call("compress_purged_file", idx,
                                          OutputPath(output_dir, purged_filename)))
           /\ fs' = done.files
           /\ IF done.raised
              THEN /\ pc' = "raised"
                   /\ exc' = done.exc
                   /\ console' = said
                   /\ idx' = idx
              ELSE /\ pc' = "purge"
                   /\ exc' = exc
                   /\ console' = Append(said, Line("Compressed file saved as: ", done.value))
                   /\ idx' = idx + 1
    /\ UNCHANGED <<cfgFile, platformName, tree, cssOnDisk, purgedBytes, config, css_files, django_apps,
                   output_dir, django_project_directory, walkStack, html_glob_patterns,
                   purge_result, purged_filename>>

\* lines 52-56: the purge printed something: show both streams, do not compress
Failed ==
    /\ pc = "check"
    /\ ~PurgeSucceeded(purge_result)
    /\ console' = console \o <<Line("PurgeCSS output:", <<>>),
                               Line("", purge_result.stdout),
                               Line("PurgeCSS errors:", <<>>),
                               Line("", purge_result.stderr)>>
    /\ idx' = idx + 1
    /\ pc' = "purge"
    /\ UNCHANGED <<cfgFile, platformName, tree, cssOnDisk, purgedBytes, fs, config, exc, css_files,
                   django_apps, output_dir, django_project_directory, walkStack,
                   html_glob_patterns, purge_result, purged_filename, calls>>

\* the loop over css_files is over: main returns
MainReturns ==
    /\ pc = "purge"
    /\ idx > Len(css_files)
    /\ pc' = "done"
    /\ UNCHANGED <<cfgFile, platformName, tree, cssOnDisk, purgedBytes, fs, config, exc, css_files,
                   django_apps, output_dir, django_project_directory, walkStack,
                   html_glob_patterns, idx, purge_result, purged_filename, console, calls>>

Next == LoadConfig \/ WalkStep \/ WalkDone \/ PurgeCssFile \/ Succeeded \/ Failed \/ MainReturns

\* ------------------------------------------------------------ the runs checked

V_css_two == <<"a", ".", "c", "s", "s", ",", " ", "b", ".", "c", "s", "s">>
V_css_min == <<"d", "/", "a", ".", "c", "s", "s", ".", "m", "i", "n", ".", "c", "s", "s">>
V_css_one == <<"a", ".", "c", "s", "s">>
V_out == <<"o", "u", "t">>
V_dir == <<"p">>
V_apps_one == <<"a", "p", "p">>
V_apps_two == <<"t", "p", "l", " ", ",", " ", "a", "p", "p">>
P_a == <<"a", ".", "c", "s", "s">>
P_b == <<"b", ".", "c", "s", "s">>
D_app == <<"a", "p", "p">>
D_tpl == <<"t", "p", "l">>
F_html == <<"i", ".", "h", "t", "m", "l">>
F_css == <<"s", ".", "c", "s", "s">>
F_htm == <<"i", ".", "h", "t", "m">>

Keys == {K_css, K_out, K_dir, K_apps}

\* the [SETTINGS] sections whose keys take their values in `values`, any of them
\* possibly missing
SettingsOver(values) ==
    UNION {{f \in [D -> UNION {values[k] : k \in Keys}] : \A k \in D : f[k] \in values[k]} :
           D \in SUBSET Keys}

\* a readable, well-formed file holding that [SETTINGS] section
FileWith(settings) == [kind |-> "ok", sections |-> (SECTION :> settings)]

\* files that cannot be read or parsed, and a well-formed one without [SETTINGS]
BrokenFiles ==
    {[kind |-> k, sections |-> <<>>] : k \in {"missing", "PermissionError", "ParsingError"}}
        \cup {[kind |-> "ok", sections |-> ("OPTIONS" :> (K_css :> V_css_two))],
              [kind |-> "ok", sections |-> (DEFAULTSECT :> (K_out :> V_out))]}

MainValues ==
    (K_css :> {<<>>, V_css_two, V_css_min}) @@ (K_out :> {<<>>, V_out})
        @@ (K_dir :> {<<>>, V_dir}) @@ (K_apps :> {<<>>, V_apps_one, V_apps_two})

\* p/ holds app/ (templates), app/around/ (templates) and tpl/ (templates)
MainTree ==
    [exists |-> TRUE, rootFiles |-> <<F_htm>>, parent |-> <<0, 1, 0>>,
     name |-> <<D_app, Text_around, D_tpl>>,
     files |-> <<<<F_css, F_html>>, <<F_html>>, <<F_html>>>>]

MainBytes == <<104, 49, 123, 125>>

\* the variables main has not assigned yet
Unassigned ==
    /\ pc = "start"
    /\ config = [isNone |-> TRUE, sections |-> <<>>]
    /\ exc = NoExc
    /\ css_files = <<>>
    /\ django_apps = <<>>
    /\ output_dir = <<>>
    /\ django_project_directory = <<>>
    /\ walkStack = <<>>
    /\ html_glob_patterns = <<>>
    /\ idx = 0
    /\ purge_result = NoResult
    /\ purged_filename = <<>>
    /\ console = <<>>
    /\ calls = <<>>

\* the same, with a [DEFAULT] section that supplies output_directory
FileWithDefault(settings) ==
    [kind |-> "ok", sections |-> (DEFAULTSECT :> (K_out :> V_out)) @@ (SECTION :> settings)]

Init ==
    /\ cfgFile \in BrokenFiles
                    \cup {FileWith(f) : f \in SettingsOver(MainValues)}
                    \cup {FileWithDefault(f) : f \in SettingsOver(MainValues)}
    /\ platformName \in {"Windows", "Linux"}
    /\ tree \in {MainTree, NoDir}
    /\ cssOnDisk \in {{P_a}, {P_a, P_b, V_css_min}}
    /\ purgedBytes = MainBytes
    /\ fs = <<>>
    /\ Unassigned

Spec == Init /\ [][Next]_vars

\* ---- the scan, over every small tree

MaxDirs == 2

DirNames == {D_app, D_tpl, Text_around}

FileLists == {<<>>, <<F_htm, F_css>>, <<F_css, F_html>>}

V_apps_pp == <<"p", "p">>

\* no two subdirectories of one directory bear the same name
SiblingsDiffer(t) ==
    \A i, j \in DOMAIN t.parent :
        (i < j /\ t.parent[i] = t.parent[j]) => t.name[i] # t.name[j]

\* every tree of n directories below the root
TreesOf(n) ==
    {t \in {[exists |-> TRUE, rootFiles |-> rf, parent |-> p, name |-> nm, files |-> fl] :
                rf \in FileLists,
                p \in {q \in [1..n -> 0..(n - 1)] : \A i \in 1..n : q[i] < i},
                nm \in [1..n -> DirNames],
                fl \in [1..n -> FileLists]} :
        SiblingsDiffer(t)}

AllTrees == UNION {TreesOf(n) : n \in 0..MaxDirs} \cup {NoDir}

ValidFile(css, apps) ==
    FileWith((K_css :> css) @@ (K_out :> V_out) @@ (K_dir :> V_dir) @@ (K_apps :> apps))

InitScan ==
    /\ cfgFile \in {ValidFile(V_css_one, a) : a \in {V_apps_one, V_apps_two, V_apps_pp}}
    /\ platformName = "Linux"
    /\ tree \in AllTrees
    /\ cssOnDisk = {P_a}
    /\ purgedBytes = MainBytes
    /\ fs = <<>>
    /\ Unassigned

SpecScan == InitScan /\ [][LoadConfig \/ WalkStep \/ WalkDone]_vars

\* ---- the splitting of the two lists, over every short value

MaxLen == 4

TAB == "\t"

SplitAlphabet == {SP, COMMA, TAB, "a"}

\* ConfigParser hands values over without surrounding whitespace
RawValues ==
    {v \in UNION {[1..n -> SplitAlphabet] : n \in 0..MaxLen} :
        Len(v) > 0 => (v[1] \notin {SP, TAB} /\ v[Len(v)] \notin {SP, TAB})}

InitSplit ==
    /\ cfgFile \in {ValidFile(v, V_apps_one) : v \in RawValues}
                        \cup {ValidFile(V_css_one, v) : v \in RawValues}
    /\ platformName = "Linux"
    /\ tree = NoDir
    /\ cssOnDisk = {P_a}
    /\ purgedBytes = MainBytes
    /\ fs = <<>>
    /\ Unassigned

SpecSplit == InitSplit /\ [][LoadConfig]_vars

\* ---- the compression, over every short stylesheet

MaxBytes == 4

ByteValues == {0, 10, 255}

P_purged == <<"o", "u", "t", "/", "a", "-", "p", "u", "r", "g", "e", "d", ".", "c", "s", "s">>

\* what an earlier run left in the output directory
StaleFiles == (P_purged :> <<10>>) @@ ((P_purged \o Text_gz) :> GzipMember(<<10>>))

InitGzip ==
    /\ cfgFile = ValidFile(V_css_one, V_apps_one)
    /\ platformName = "Linux"
    /\ tree = MainTree
    /\ cssOnDisk = {P_a}
    /\ purgedBytes \in UNION {[1..n -> ByteValues] : n \in 0..MaxBytes}
    /\ fs \in {<<>>, StaleFiles}
    /\ Unassigned

SpecGzip == InitGzip /\ [][Next]_vars

\* ------------------------------------------------------------ properties

\* the positions of `calls` that hold a call of the given kind
CallsOf(op) == {k \in DOMAIN calls : calls[k].op = op}

\* the run has loaded (or failed to load) its configuration
Loaded == pc # "start"

\* the keys a section shows, those of [DEFAULT] among them, with their values
Shown(sections, name) ==
    IF DEFAULTSECT \in DOMAIN sections
    THEN sections[name] @@ sections[DEFAULTSECT]
    ELSE sections[name]

\* a well-formed file in which a required key is absent from [SETTINGS] or empty
LacksRequiredKey(file) ==
    /\ file.kind = "ok"
    /\ \/ SECTION \notin DOMAIN file.sections
       \/ \E k \in Keys :
            \/ k \notin DOMAIN Shown(file.sections, SECTION)
            \/ Len(Shown(file.sections, SECTION)[k]) = 0

InvalidConfiguration == cfgFile.kind # "ok" \/ LacksRequiredKey(cfgFile)

Printed(text) == \E k \in DOMAIN console : console[k].text = text

\* C2: with an invalid configuration the loader returns nothing, main prints its
\* message and returns, and nothing is scanned, purged or compressed.
C2_InvalidConfigPrintsAndReturns ==
    (Loaded /\ InvalidConfiguration) =>
        /\ pc = "done"
        /\ exc = NoExc
        /\ Printed("Config file set incorrectly.")
        /\ CallsOf("os.walk") = {}
        /\ CallsOf("subprocess.run") = {}
        /\ CallsOf("compress_purged_file") = {}

\* the calls that returned from purge_css_file with both streams empty
QuietReturns ==
    {k \in CallsOf("returned") : Len(calls[k].arg.stdout) = 0 /\ Len(calls[k].arg.stderr) = 0}

\* C4 as stated: a run that reaches the end has produced the purged file and
\* its .gz for every configured CSS file.
C4_EveryFileProduced ==
    pc = "done" =>
        \A i \in DOMAIN css_files :
            /\ OutputPath(output_dir, OutputFilename(css_files[i])) \in DOMAIN fs
            /\ OutputPath(output_dir, OutputFilename(css_files[i])) \o Text_gz \in DOMAIN fs

\* C4 (amended): a run that reaches the end has produced the purged file and its
\* .gz for every configured CSS file whose purge returned with both streams
\* empty, and each compression is run on the name the purge of that file returned.
C4_EveryQuietFileProduced ==
    /\ pc = "done" =>
        \A k \in QuietReturns :
            /\ OutputPath(output_dir, calls[k].arg.name) \in DOMAIN fs
            /\ OutputPath(output_dir, calls[k].arg.name) \o Text_gz \in DOMAIN fs
    /\ \A c \in CallsOf("compress_purged_file") :
        \E k \in QuietReturns :
            /\ k < c
            /\ calls[k].i = calls[c].i
            /\ calls[c].arg = OutputPath(output_dir, calls[k].arg.name)

\* a.css and b.css both purged quietly, and the four files are there
C4_Witness ==
    /\ pc = "done"
    /\ css_files = <<P_a, P_b>>
    /\ Cardinality(QuietReturns) = 2
    /\ Cardinality(DOMAIN fs) = 4

\* the for loop stands at a purge that printed on either stream
AtNoisyPurge ==
    pc = "check" /\ (Len(purge_result.stdout) > 0 \/ Len(purge_result.stderr) > 0)

\* C5: after a purge that printed on stderr or stdout, main prints both captured
\* streams, does not call the compressor and writes no file, and moves on to the
\* next configured CSS file, whose purge is the next thing to run.
C5_NoisyPurgeSkipsCompression ==
    [][/\ AtNoisyPurge =>
            /\ console' = console \o <<Line("PurgeCSS output:", <<>>),
                                       Line("", purge_result.stdout),
                                       Line("PurgeCSS errors:", <<>>),
                                       Line("", purge_result.stderr)>>
            /\ calls' = calls
            /\ fs' = fs
            /\ exc' = NoExc
            /\ pc' = "purge"
            /\ idx' = idx + 1
       /\ (pc = "purge" /\ idx <= Len(css_files)) =>
            /\ pc' = "check"
            /\ Len(calls') = Len(calls) + 2
            /\ calls'[Len(calls) + 1].op = "subprocess.run"
            /\ calls'[Len(calls) + 1].arg.purgecss.css = css_files[idx]
      ]_vars

\* the first file printed on stderr, was not compressed, and the second was run
C5_Witness ==
    /\ Len(css_files) = 2
    /\ \E k \in CallsOf("returned") : calls[k].i = 1 /\ Len(calls[k].arg.stderr) > 0
    /\ \A c \in CallsOf("compress_purged_file") : calls[c].i # 1
    /\ \E k \in CallsOf("subprocess.run") : calls[k].i = 2

\* C7: the configuration is loaded first, the tree is walked once and to its end
\* before the first purge, every purge is given the same complete pattern list,
\* the CSS files are purged one at a time in list order, and a file's compression
\* lies between its own purge's return and the next file's purge.
C7_StrictlySequential ==
    /\ calls # <<>> => CallsOf("load_and_check_config") = {1}
    /\ Cardinality(CallsOf("os.walk")) <= 1
    /\ \A v \in CallsOf("visit") :
        /\ \E w \in CallsOf("os.walk") : w < v
        /\ \A r \in CallsOf("subprocess.run") : v < r
    /\ CallsOf("subprocess.run") # {} => walkStack = <<>>
    /\ \A r \in CallsOf("subprocess.run") :
        /\ calls[r].arg.purgecss.content = Join(html_glob_patterns, <<SP>>)
        /\ calls[r].i = Cardinality({q \in CallsOf("subprocess.run") : q <= r})
        /\ calls[r].arg.purgecss.css = css_files[calls[r].i]
        /\ calls[r + 1].op = "returned" /\ calls[r + 1].i = calls[r].i
    /\ \A c \in CallsOf("compress_purged_file") :
        /\ \E k \in CallsOf("returned") : k < c /\ calls[k].i = calls[c].i
        /\ \A r \in CallsOf("subprocess.run") : (calls[r].i > calls[c].i) => c < r
        /\ \A r \in CallsOf("subprocess.run") : (calls[r].i <= calls[c].i) => r < c

\* two files purged and compressed after a walk that found templates
C7_Witness ==
    /\ pc = "done"
    /\ Len(html_glob_patterns) = 2
    /\ Cardinality(CallsOf("visit")) = 4
    /\ Cardinality(CallsOf("subprocess.run")) = 2
    /\ Cardinality(CallsOf("compress_purged_file")) = 2

\* the step appends a call of compress_purged_file for the current file
CompressorCalled ==
    /\ Len(calls') = Len(calls) + 1
    /\ calls'[Len(calls')].op = "compress_purged_file"
    /\ calls'[Len(calls')].i = idx

\* C8: the compressor is called for a file exactly when the captured stdout and
\* stderr are both empty, whatever the exit status; and the purge is invoked for
\* every configured file, on disk or not (a missing one only prints a message).
C8_StreamsDecideNotStatus ==
    [][/\ pc = "check" =>
            (CompressorCalled <=>
                (Len(purge_result.stdout) = 0 /\ Len(purge_result.stderr) = 0))
       /\ (pc = "purge" /\ idx <= Len(css_files)) =>
            /\ calls'[Len(calls) + 1].op = "subprocess.run"
            /\ calls'[Len(calls) + 1].arg.purgecss.css = css_files[idx]
            /\ Len(console') = Len(console) + 1
            /\ (console'[Len(console')].text = "Running PurgeCSS command: ")
                    <=> (css_files[idx] \in cssOnDisk)
      ]_vars

\* b.css is not on disk, its purge exited 1 printing nothing, and it was compressed
C8_Witness ==
    /\ P_b \notin cssOnDisk
    /\ \E k \in QuietReturns :
        /\ calls[k].arg.returncode = 1
        /\ css_files[calls[k].i] = P_b
        /\ \E c \in CallsOf("compress_purged_file") : calls[c].i = calls[k].i

\* the name without a trailing ".css"
WithoutCssExtension(name) ==
    IF EndsWith(name, Text_css) THEN Take(name, Len(name) - Len(Text_css)) ELSE name

\* C9: the purged-file name is the base name of the CSS path with its trailing
\* ".css" extension removed and "-purged.css" appended, for every base name.
C9_NameDropsTrailingExtension ==
    pc = "check" =>
        purged_filename = WithoutCssExtension(Basename(css_files[idx])) \o Text_purged

\* the path os.walk gives directory i of tree t under top
RECURSIVE PathOf(_, _, _)
PathOf(t, top, i) ==
    IF i = 0 THEN top ELSE PathOf(t, top, t.parent[i]) \o <<SLASH>> \o t.name[i]

\* word occurs in text at offset `at`
OccursAt(text, word, at) ==
    /\ at + Len(word) <= Len(text)
    /\ \A j \in DOMAIN word : text[at + j] = word[j]

\* directory i meets the three conditions of a template directory
Wanted(i) ==
    LET path == PathOf(tree, django_project_directory, i)
        files == FilesOf(tree, i)
    IN  /\ \E a \in DOMAIN django_apps : \E at \in 0..Len(path) :
                OccursAt(path, django_apps[a], at)
        /\ \A at \in 0..Len(path) : ~OccursAt(path, Text_around, at)
        /\ \E f \in DOMAIN files :
                /\ Len(files[f]) >= Len(Text_html)
                /\ OccursAt(files[f], Text_html, Len(files[f]) - Len(Text_html))

\* the directories visited so far, in the order of the walk
Visits == SelectSeq(calls, LAMBDA c : c.op = "visit")

\* C3: the scanner's list is, in walk order, "<dir>/*.html" for exactly the
\* visited directories whose path contains an app fragment, does not contain
\* "around", and which hold an .html file directly; every directory is visited
\* once, so N such directories give N patterns.
C3_ScanListsQualifyingDirs ==
    pc \in {"walk", "purge"} =>
        LET wanted == SelectSeq(Visits, LAMBDA c : Wanted(c.i))
            dirs == IF tree.exists THEN 0..Len(tree.parent) ELSE {}
        IN  /\ html_glob_patterns =
                    [k \in 1..Len(wanted) |->
                        PathOf(tree, django_project_directory, wanted[k].i) \o Text_glob]
            /\ \A k \in DOMAIN Visits :
                    /\ Visits[k].arg = PathOf(tree, django_project_directory, Visits[k].i)
                    /\ \A m \in DOMAIN Visits : Visits[m].i = Visits[k].i => m = k
            /\ pc = "purge" =>
                    /\ {Visits[k].i : k \in DOMAIN Visits} = dirs
                    /\ Len(html_glob_patterns) = Cardinality({i \in dirs : Wanted(i)})

\* p/app holds templates and is listed; p/app/around holds templates too, matches
\* the fragment, and is left out
C3_Witness ==
    /\ pc = "purge"
    /\ django_apps = <<D_app>>
    /\ tree.exists /\ tree.parent = <<0, 1>> /\ tree.name = <<D_app, Text_around>>
    /\ tree.files = <<<<F_css, F_html>>, <<F_css, F_html>>>>
    /\ Len(html_glob_patterns) = 1

\* elem is piece without the spaces at its two ends
SpacesRemoved(piece, elem) ==
    \E a, b \in 0..Len(piece) :
        /\ a + b <= Len(piece)
        /\ elem = SubSeq(piece, a + 1, Len(piece) - b)
        /\ \A j \in 1..a : piece[j] = SP
        /\ \A j \in (Len(piece) - b + 1)..Len(piece) : piece[j] = SP
        /\ Len(elem) > 0 => (elem[1] # SP /\ elem[Len(elem)] # SP)

\* elem is piece without its leading spaces
LeadingSpacesRemoved(piece, elem) ==
    \E a \in 0..Len(piece) :
        /\ elem = SubSeq(piece, a + 1, Len(piece))
        /\ \A j \in 1..a : piece[j] = SP
        /\ Len(elem) > 0 => elem[1] # SP

\* the pieces of value between its commas
PiecesOf(value, pieces) ==
    /\ Join(pieces, <<COMMA>>) = value
    /\ \A i \in DOMAIN pieces : \A j \in DOMAIN pieces[i] : pieces[i][j] # COMMA

\* list has one element for each piece of value between its commas
OnePerPiece(value, list) ==
    /\ PiecesOf(value, Split(value, <<COMMA>>))
    /\ Len(list) = Len(Split(value, <<COMMA>>))

\* C10 as stated: each element of the two split lists has only its leading
\* spaces removed; trailing spaces stay.
C10_LeadingSpacesOnly ==
    pc = "walk" =>
        /\ OnePerPiece(cfgFile.sections[SECTION][K_css], css_files)
        /\ OnePerPiece(cfgFile.sections[SECTION][K_apps], django_apps)
        /\ \A i \in DOMAIN css_files :
            LeadingSpacesRemoved(Split(cfgFile.sections[SECTION][K_css], <<COMMA>>)[i],
                                 css_files[i])
        /\ \A i \in DOMAIN django_apps :
            LeadingSpacesRemoved(Split(cfgFile.sections[SECTION][K_apps], <<COMMA>>)[i],
                                 django_apps[i])

\* C10 (amended): each element of the two split lists has its leading and its
\* trailing spaces removed, and no other character changed.
C10_SpacesAtBothEnds ==
    pc = "walk" =>
        /\ OnePerPiece(cfgFile.sections[SECTION][K_css], css_files)
        /\ OnePerPiece(cfgFile.sections[SECTION][K_apps], django_apps)
        /\ \A i \in DOMAIN css_files :
            SpacesRemoved(Split(cfgFile.sections[SECTION][K_css], <<COMMA>>)[i], css_files[i])
        /\ \A i \in DOMAIN django_apps :
            SpacesRemoved(Split(cfgFile.sections[SECTION][K_apps], <<COMMA>>)[i],
                          django_apps[i])

\* "a ,a": the first element lost its trailing space
C10_Witness ==
    /\ pc = "walk"
    /\ cfgFile.sections[SECTION][K_css] = <<"a", SP, COMMA, "a">>
    /\ css_files = <<<<"a">>, <<"a">>>>

====
